---- MODULE Spec2Model ----
(***************************************************************************)
(* Product Fairy: the batch image-generation pipeline.                     *)
(*                                                                         *)
(* The client (frontend/src/App.jsx and its components) is modelled from   *)
(* its source.  The server side of the pipeline (backend/main.py: the      *)
(* batch orchestrator, the attempt executor with its retries, the          *)
(* reference resolver and the filename deriver of the image events) is not *)
(* part of the source tree; it is modelled from the written design and     *)
(* every definition that does so is named Server... or Canonical...        *)
(*                                                                         *)
(* React state updates made inside a click handler are rendered before the *)
(* next click is dispatched, so a handler's synchronous part and the       *)
(* re-render that follows it are one step; every await is a step boundary. *)
(***************************************************************************)
EXTENDS Integers, Sequences, FiniteSets, TLC

\* ------------------------------------------------------------------ bounds
MaxProducts == 3        \* longest variant list handed to a run
MaxPnLen == 2           \* longest product number the resume computation is fed
MaxImages == 4          \* cap on the in-memory image list
MaxCompleted == 4       \* cap on the ledger's completed-filename list
MaxBuffered == 1        \* events in flight between the server and the client
MaxRuns == 2            \* run slots: requests the server may hold at once
MaxRegen == 2           \* regenerate requests that may be in flight at once

\* ----------------------------------------------------------------- strings
\* A string is a sequence of one-character strings; '' is << >>.  A field
\* that is absent (undefined, null) is falsy like '', and is << >> too.
Alnum == {"A", "B", "D", "M", "O", "P", "R", "U", "W",
          "0", "1", "2", "3", "4", "5", "6", "7", "8", "9"}
Punct == {"-", "."}
Chars == Alnum \cup Punct

RECURSIVE StripDashes(_)
\* String(p.ProductNumber || '').replace(/-/g, '')
StripDashes(s) ==
  IF s = << >> THEN << >>
  ELSE IF Head(s) = "-" THEN StripDashes(Tail(s))
  ELSE <<Head(s)>> \o StripDashes(Tail(s))

RECURSIVE StripNonAlnum(_)
\* the design's strip_non_alnum(productNumber)
StripNonAlnum(s) ==
  IF s = << >> THEN << >>
  ELSE IF Head(s) \in Alnum THEN <<Head(s)>> \o StripNonAlnum(Tail(s))
  ELSE StripNonAlnum(Tail(s))

\* p.GenderCode || 'U'
GenderOrDefault(g) == IF g = << >> THEN <<"U">> ELSE g

\* the derivation with the colour code left out
ResumeFilenameNoColor(p) == StripDashes(p.pn) \o GenderOrDefault(p.g)

\* `${pn}${p.GenderCode || 'U'}${p.ColorCode || ''}` of handleResume
ResumeFilename(p) == StripDashes(p.pn) \o GenderOrDefault(p.g) \o p.c

\* the design's derive(variant), without the extension: the filename field
\* of an image event
CanonicalFilename(p) == StripNonAlnum(p.pn) \o GenderOrDefault(p.g) \o p.c

\* a trim that removes nothing
TrimKeepsAll(s) == s

\* photoStyle.trim(): leading and trailing blanks removed
RECURSIVE TrimLeft(_)
TrimLeft(s) ==
  IF s = << >> THEN << >>
  ELSE IF Head(s) = " " THEN TrimLeft(Tail(s)) ELSE s

RECURSIVE TrimRight(_)
TrimRight(s) ==
  IF s = << >> THEN << >>
  ELSE IF s[Len(s)] = " " THEN TrimRight(SubSeq(s, 1, Len(s) - 1)) ELSE s

Trim(s) == TrimRight(TrimLeft(s))

\* the order IndexedDB keeps its string keys in
CharRank(ch) ==
  CASE ch = "-" -> 1 [] ch = "." -> 2 [] ch = "0" -> 3 [] ch = "1" -> 4
    [] ch = "2" -> 5 [] ch = "3" -> 6 [] ch = "4" -> 7 [] ch = "5" -> 8
    [] ch = "6" -> 9 [] ch = "7" -> 10 [] ch = "8" -> 11 [] ch = "9" -> 12
    [] ch = "A" -> 13 [] ch = "B" -> 14 [] ch = "D" -> 15 [] ch = "M" -> 16
    [] ch = "O" -> 17 [] ch = "P" -> 18 [] ch = "R" -> 19 [] ch = "U" -> 20
    [] OTHER -> 21

RECURSIVE KeyLess(_, _)
KeyLess(a, b) ==
  IF b = << >> THEN FALSE
  ELSE IF a = << >> THEN TRUE
  ELSE IF Head(a) # Head(b) THEN CharRank(Head(a)) < CharRank(Head(b))
  ELSE KeyLess(Tail(a), Tail(b))

\* ---------------------------------------------------------------- variants
Variant(pn, g, c, named) == [pn |-> pn, g |-> g, c |-> c, named |-> named]

V1 == Variant(<<"A", "-", "1">>, <<"M">>, <<"B">>, TRUE)
V2 == Variant(<<"A", "-", "1">>, <<"M">>, <<"W">>, TRUE)
V3 == Variant(<<"B", ".", "1">>, << >>, << >>, TRUE)
V4 == Variant(<<"A", "1">>, <<"M">>, <<"B">>, TRUE)
Catalog == <<V1, V3, V2, V4>>

\* the order-preserving sublists of the catalog, up to MaxProducts long
RECURSIVE SubLists(_)
SubLists(s) ==
  IF s = << >> THEN {<< >>}
  ELSE LET rest == SubLists(Tail(s))
       IN rest \cup {<<Head(s)>> \o t : t \in rest}

ProductLists == {l \in SubLists(Catalog) : Len(l) >= 1 /\ Len(l) <= MaxProducts}

\* ------------------------------------------------------------------- state
VARIABLES
  apiKey,               \* 'pf-api-key' is set (sessionStorage)
  isGenerating,
  progress,             \* [current, total]
  images,               \* the in-memory image list
  error,                \* number of messages in the error text, 0 for ''
  isComplete,
  abortControllerRef,   \* 0 for null, else the run whose controller it holds
  appMode,
  storeBuilderStep,
  storeDescription,     \* 'pf-description' is not empty
  file,                 \* the validated CSV's rows, << >> with no valid file
  generatedProducts,    \* 'pf-products'
  photoStyle,           \* 'pf-photo-style'
  regeneratingFilename, \* << >> for null
  generationSession,    \* 'pf-generation-session': the ledger
  showResumeBanner,
  db,                   \* the IndexedDB object store, keyed by filename
  loadPending,          \* the mount effect's loadAllImages() has not resolved
  loadSnapshot,         \* what its getAll read from the store, once it has
  runs,                 \* the batch requests: client call and server run
  regenRequests         \* the regenerate-single requests in flight

vars == <<apiKey, isGenerating, progress, images, error, isComplete,
          abortControllerRef, appMode, storeBuilderStep, storeDescription,
          file, generatedProducts, photoStyle, regeneratingFilename,
          generationSession, showResumeBanner, db, loadPending, loadSnapshot, runs,
          regenRequests>>

\* useLocalStorage('pf-generation-session', null)
NoSession ==
  [mode |-> "none", hasProducts |-> FALSE, products |-> << >>,
   completedFilenames |-> << >>, totalCount |-> 0]

Session(mode, hasProducts, products, total) ==
  [mode |-> mode, hasProducts |-> hasProducts, products |-> products,
   completedFilenames |-> << >>, totalCount |-> total]

Image(filename, data) == [filename |-> filename, data |-> data]

\* a run slot nobody uses
FreeRun ==
  [kind |-> "free", isResume |-> FALSE, products |-> << >>, style |-> << >>,
   cpc |-> "closed", aborted |-> FALSE, cImage |-> 0, cError |-> 0,
   cComplete |-> 0,
   spc |-> "unsent", i |-> 0, attempt |-> 0, cls |-> "none",
   results |-> << >>, refs |-> << >>, stream |-> << >>,
   cancelled |-> FALSE, startedAtCancel |-> 0]

RunIds == 1..MaxRuns

\* the run is over on both sides: nothing of it is left to happen
RunOver(run) ==
  /\ run.cpc = "closed"
  /\ run.spc \in {"unsent", "done", "stopped", "refused"}

\* a run whose client side is closed while the server still holds a call of
\* the upstream capability: the call ends on its own, its result is
\* discarded and the run stops at the boundary that follows; nothing else
\* of the run's record is read again
Lingering == [FreeRun EXCEPT !.kind = "lingering", !.spc = "attempt",
                             !.cancelled = TRUE]

\* a run after its client side closed: over when the server emitted its
\* last event or finds the cancel request at its next poll
Closed(run) ==
  IF RunOver(run) THEN FreeRun
  ELSE IF run.cpc = "closed"
  THEN (IF run.spc = "attempt" THEN Lingering ELSE FreeRun)
  ELSE run

\* the slots after a step
Settle(rs) == [r \in RunIds |-> Closed(rs[r])]

\* the connection of a run closes: a server run that is still going takes it
\* as its cancel request
CancelRequested(run) ==
  IF run.spc \in {"unsent", "done", "stopped", "refused"} THEN run
  ELSE [run EXCEPT !.cancelled = TRUE,
                   !.startedAtCancel = IF run.cancelled THEN @ ELSE run.i]

FreeSlots == {r \in RunIds : runs[r].kind = "free"}

\* the client's side of run r is still executing
ClientActive(r) == runs[r].cpc # "closed"

\* --------------------------------------------------------- what is rendered
showImageGeneration == isGenerating /\ progress.total > 0
showGallery == Len(images) > 0
isShopifyStep == appMode = "store-builder" /\ storeBuilderStep = "shopify"
canGenerate == apiKey /\ file # << >> /\ ~isGenerating

PhotoStyleSelectorShown ==
  /\ appMode = "store-builder"
  /\ storeBuilderStep = "style"
  /\ ~showImageGeneration
  /\ ~showGallery

\* the Generate button without its disabled={isGenerating}
GenerateImagesEnabledWhileGenerating ==
  PhotoStyleSelectorShown /\ Trim(photoStyle) # << >>

\* the Generate button of PhotoStyleSelector: disabled || !photoStyle.trim()
GenerateImagesEnabled ==
  PhotoStyleSelectorShown /\ ~isGenerating /\ Trim(photoStyle) # << >>

\* the Generate Images button of the CSV mode: disabled={!canGenerate}
CsvGenerateEnabled == appMode = "csv-upload" /\ canGenerate

ResumeBannerShown ==
  showResumeBanner /\ generationSession # NoSession /\ ~isGenerating

ResumeButtonShown ==
  ResumeBannerShown /\ generationSession.mode = "store-builder" /\ apiKey

StartNewEnabled ==
  /\ Len(generatedProducts) > 0 \/ storeDescription \/ Len(images) > 0
  /\ ~isGenerating

BackToPhotoStyleShown ==
  /\ appMode = "store-builder"
  /\ showGallery \/ showImageGeneration
  /\ ~isGenerating
  /\ ~isShopifyStep

GalleryShown == showGallery /\ ~isShopifyStep

\* the regenerate button of a gallery entry: disabled={!!regeneratingFilename}
RegenerateEnabled == GalleryShown /\ regeneratingFilename = << >>

\* ------------------------------------------------------------------- Init
PhotoStyles == {<< >>, <<" ">>, <<"s">>}

\* loadAllImages() before its getAll has read the store
NoSnapshot == [read |-> FALSE, stored |-> << >>]

Init ==
  /\ apiKey = TRUE
  /\ isGenerating = FALSE
  /\ progress = [current |-> 0, total |-> 0]
  /\ images = << >>
  /\ error = 0
  /\ isComplete = FALSE
  /\ abortControllerRef = 0
  /\ appMode = "store-builder"
  /\ storeBuilderStep = "style"
  /\ storeDescription = TRUE
  /\ file = << >>
  /\ generatedProducts \in ProductLists
  /\ photoStyle = << >>
  /\ regeneratingFilename = << >>
  /\ generationSession = NoSession
  /\ showResumeBanner = FALSE
  /\ db = {}
  /\ loadPending = FALSE
  /\ loadSnapshot = NoSnapshot
  /\ runs = [r \in RunIds |-> FreeRun]
  /\ regenRequests = << >>

\* ---------------------------------------------------------------- helpers
Range(s) == {s[k] : k \in 1..Len(s)}

Event(type, current, total, filename) ==
  [type |-> type, current |-> current, total |-> total, filename |-> filename]

\* db.put(STORE_NAME, image): upsert by the key path 'filename'
Put(store, img) == {x \in store : x.filename # img.filename} \cup {img}

RECURSIVE SortedKeys(_)
SortedKeys(keys) ==
  IF keys = {} THEN << >>
  ELSE LET least == CHOOSE k \in keys : \A o \in keys \ {k} : KeyLess(k, o)
       IN <<least>> \o SortedKeys(keys \ {least})

\* db.getAll(STORE_NAME): the stored images in key order
GetAll(store) ==
  LET keys == SortedKeys({x.filename : x \in store})
  IN [k \in 1..Len(keys) |-> CHOOSE x \in store : x.filename = keys[k]]

NewSlot == CHOOSE r \in FreeSlots : \A q \in FreeSlots : r <= q

NewRun(kind, isResume, products, style, cpc, spc) ==
  [FreeRun EXCEPT !.kind = kind, !.isResume = isResume, !.products = products,
                  !.style = style, !.cpc = cpc, !.spc = spc]

\* no filter at all: every product of the session is handed on
RemainingKeepsAll(session) == session.products

\* the filter with its test the wrong way round: it keeps the completed ones
RemainingInverted(session) ==
  SelectSeq(session.products,
            LAMBDA p : ResumeFilename(p) \in Range(session.completedFilenames))

\* the products handleResume hands to handleGenerateImages: those whose
\* filename is not in the set of completed filenames
Remaining(session) ==
  SelectSeq(session.products,
            LAMBDA p : ResumeFilename(p) \notin Range(session.completedFilenames))

\* ------------------------------------------------- store-builder batch run
\* handleGenerateImages(event) up to its await clearAllImages(): the click on
\* the Generate button of the photo-style step
handleGenerateImages ==
  /\ GenerateImagesEnabled
  /\ FreeSlots # {}
  /\ IF ~apiKey \/ Len(generatedProducts) = 0 \/ Trim(photoStyle) = << >>
     THEN UNCHANGED vars
     ELSE /\ runs' = [runs EXCEPT ![NewSlot] =
                        NewRun("sb", FALSE, generatedProducts, photoStyle,
                               "clearing", "unsent")]
          /\ abortControllerRef' = NewSlot
          /\ isGenerating' = TRUE
          /\ images' = << >>
          /\ UNCHANGED <<apiKey, progress, error, isComplete, appMode,
                         storeBuilderStep, storeDescription, file,
                         generatedProducts, photoStyle, regeneratingFilename,
                         generationSession, showResumeBanner, db, loadPending, loadSnapshot,
                         regenRequests>>

\* a non-resume run after clearAllImages() resolved, up to the fetch: the
\* fetch of an aborted controller rejects at once and the finally block runs
AfterClear(r) ==
  /\ runs[r].cpc = "clearing"
  /\ db' = {}
  /\ progress' = [current |-> 0, total |-> Len(runs[r].products)]
  /\ error' = 0
  /\ isComplete' = FALSE
  /\ showResumeBanner' = FALSE
  /\ generationSession' =
       IF runs[r].kind = "sb"
       THEN Session("store-builder", TRUE, runs[r].products,
                    Len(runs[r].products))
       ELSE Session("csv", FALSE, << >>, Len(runs[r].products))
  /\ IF runs[r].aborted
     THEN /\ runs' = Settle([runs EXCEPT ![r].cpc = "closed"])
          /\ abortControllerRef' = 0
          /\ isGenerating' = FALSE
     ELSE /\ runs' = [runs EXCEPT ![r].cpc = "streaming", ![r].spc = "received"]
          /\ UNCHANGED <<abortControllerRef, isGenerating>>
  /\ UNCHANGED <<apiKey, images, appMode, storeBuilderStep, storeDescription,
                 file, generatedProducts, photoStyle, regeneratingFilename,
                 loadPending, loadSnapshot, regenRequests>>

\* handleResume: the Resume button of the banner; a non-empty remainder goes
\* to handleGenerateImages(remaining, true), which has no await before fetch
handleResume ==
  /\ ResumeButtonShown
  /\ IF generationSession = NoSession \/ generationSession.mode # "store-builder"
     THEN /\ showResumeBanner' = FALSE
          /\ UNCHANGED <<apiKey, isGenerating, progress, images, error,
                         isComplete, abortControllerRef, appMode,
                         storeBuilderStep, storeDescription, file,
                         generatedProducts, photoStyle, regeneratingFilename,
                         generationSession, db, loadPending, loadSnapshot, runs,
                         regenRequests>>
     ELSE IF Len(Remaining(generationSession)) = 0
     THEN /\ showResumeBanner' = FALSE
          /\ generationSession' = NoSession
          /\ UNCHANGED <<apiKey, isGenerating, progress, images, error,
                         isComplete, abortControllerRef, appMode,
                         storeBuilderStep, storeDescription, file,
                         generatedProducts, photoStyle, regeneratingFilename,
                         db, loadPending, loadSnapshot, runs, regenRequests>>
     ELSE IF ~apiKey \/ Trim(photoStyle) = << >>
     THEN UNCHANGED vars
     ELSE /\ FreeSlots # {}
          /\ runs' = [runs EXCEPT ![NewSlot] =
                        NewRun("sb", TRUE, Remaining(generationSession),
                               photoStyle, "streaming", "received")]
          /\ abortControllerRef' = NewSlot
          /\ isGenerating' = TRUE
          /\ progress' = [current |-> 0,
                          total |-> Len(Remaining(generationSession))]
          /\ error' = 0
          /\ isComplete' = FALSE
          /\ showResumeBanner' = FALSE
          /\ UNCHANGED <<apiKey, images, appMode, storeBuilderStep,
                         storeDescription, file, generatedProducts, photoStyle,
                         regeneratingFilename, generationSession, db,
                         loadPending, loadSnapshot, regenRequests>>

\* handleDismissResume
handleDismissResume ==
  /\ ResumeBannerShown
  /\ showResumeBanner' = FALSE
  /\ generationSession' = NoSession
  /\ UNCHANGED <<apiKey, isGenerating, progress, images, error, isComplete,
                 abortControllerRef, appMode, storeBuilderStep,
                 storeDescription, file, generatedProducts, photoStyle,
                 regeneratingFilename, db, loadPending, loadSnapshot, runs, regenRequests>>

\* ----------------------------------------------------------- CSV batch run
\* the CSV files the user may drop: handleFileSelect keeps the file and the
\* server's validation of it (valid, rowCount = the number of rows)
CsvFiles == {<<V2>>}

handleFileSelect(rows) ==
  /\ appMode = "csv-upload"
  /\ ~isGenerating
  /\ file' = rows
  /\ error' = 0
  /\ UNCHANGED <<apiKey, isGenerating, progress, images, isComplete,
                 abortControllerRef, appMode, storeBuilderStep,
                 storeDescription, generatedProducts, photoStyle,
                 regeneratingFilename, generationSession, showResumeBanner,
                 db, loadPending, loadSnapshot, runs, regenRequests>>

\* handleGenerate up to its await clearAllImages()
handleGenerate ==
  /\ CsvGenerateEnabled
  /\ FreeSlots # {}
  /\ IF ~apiKey \/ file = << >>
     THEN UNCHANGED vars
     ELSE /\ runs' = [runs EXCEPT ![NewSlot] =
                        NewRun("csv", FALSE, file, << >>, "clearing", "unsent")]
          /\ abortControllerRef' = NewSlot
          /\ isGenerating' = TRUE
          /\ images' = << >>
          /\ UNCHANGED <<apiKey, progress, error, isComplete, appMode,
                         storeBuilderStep, storeDescription, file,
                         generatedProducts, photoStyle, regeneratingFilename,
                         generationSession, showResumeBanner, db, loadPending, loadSnapshot,
                         regenRequests>>

\* ------------------------------------------------------ the client's stream
\* a finally block that releases the controller and leaves isGenerating set
FinallyKeepsGenerating(r) ==
  /\ abortControllerRef' = 0
  /\ isGenerating' = isGenerating

\* the finally block of a batch handler
Finally(r) ==
  /\ abortControllerRef' = 0
  /\ isGenerating' = FALSE

\* an image event that leaves the ledger as it is
RecordCompletionSkipped(session, filename) == session

\* setGenerationSession(prev => prev ? {...prev, completedFilenames:
\*   [...prev.completedFilenames, data.filename]} : prev)
RecordCompletion(session, filename) ==
  IF session = NoSession THEN session
  ELSE [session EXCEPT !.completedFilenames = Append(@, filename)]

\* if (!response.ok) throw: the catch block shows the message and the
\* finally block runs
OnNotOk(r, rest) ==
  /\ runs' = Settle([runs EXCEPT ![r].stream = rest, ![r].cpc = "closed"])
  /\ error' = 1
  /\ Finally(r)
  /\ UNCHANGED <<progress, images, isComplete, generationSession, db>>

\* a progress handler that counts one variant too many
OnProgressOffByOne(r, e, rest) ==
  /\ runs' = [runs EXCEPT ![r].stream = rest]
  /\ progress' = [current |-> e.current + 1, total |-> e.total]
  /\ UNCHANGED <<images, error, isComplete, generationSession, db,
                 abortControllerRef, isGenerating>>

\* case 'progress'
OnProgress(r, e, rest) ==
  /\ runs' = [runs EXCEPT ![r].stream = rest]
  /\ progress' = [current |-> e.current, total |-> e.total]
  /\ UNCHANGED <<images, error, isComplete, generationSession, db,
                 abortControllerRef, isGenerating>>

\* case 'image': the image joins the list, is saved to the store and its
\* filename is recorded in the ledger
OnImage(r, e, rest) ==
  /\ Len(images) < MaxImages
  /\ Len(generationSession.completedFilenames) < MaxCompleted
  /\ runs' = [runs EXCEPT ![r].stream = rest, ![r].cImage = @ + 1]
  /\ images' = Append(images, Image(e.filename, "gen"))
  /\ db' = Put(db, Image(e.filename, "gen"))
  /\ generationSession' = RecordCompletion(generationSession, e.filename)
  /\ UNCHANGED <<progress, error, isComplete, abortControllerRef,
                 isGenerating>>

\* case 'error' handled as a failure of the request: the message is shown,
\* the loop is left, the connection closes and the finally block runs
OnErrorThrows(r, e, rest) ==
  /\ runs' = Settle([runs EXCEPT ![r] =
                [CancelRequested([@ EXCEPT !.stream = rest]) EXCEPT
                   !.cpc = "closed"]])
  /\ error' = error + 1
  /\ Finally(r)
  /\ UNCHANGED <<progress, images, isComplete, generationSession, db>>

\* case 'error': the message is appended to the error text
OnError(r, e, rest) ==
  /\ runs' = [runs EXCEPT ![r].stream = rest, ![r].cError = @ + 1]
  /\ error' = error + 1
  /\ UNCHANGED <<progress, images, isComplete, generationSession, db,
                 abortControllerRef, isGenerating>>

\* case 'complete'
OnComplete(r, e, rest) ==
  /\ runs' = [runs EXCEPT ![r].stream = rest, ![r].cComplete = @ + 1]
  /\ isComplete' = TRUE
  /\ generationSession' = NoSession
  /\ UNCHANGED <<progress, images, error, db, abortControllerRef,
                 isGenerating>>

\* an event loop that goes on reading what the response has buffered after
\* its controller was aborted
ClientReceiveAfterAbort(r) ==
  /\ runs[r].cpc = "streaming"
  /\ runs[r].stream # << >>
  /\ LET e == Head(runs[r].stream)
         rest == Tail(runs[r].stream)
     IN CASE e.type = "http_error" -> OnNotOk(r, rest)
          [] e.type = "progress" -> OnProgress(r, e, rest)
          [] e.type = "image" -> OnImage(r, e, rest)
          [] e.type = "error" -> OnError(r, e, rest)
          [] e.type = "complete" -> OnComplete(r, e, rest)
  /\ UNCHANGED <<apiKey, appMode, storeBuilderStep, storeDescription, file,
                 generatedProducts, photoStyle, regeneratingFilename,
                 showResumeBanner, loadPending, loadSnapshot, regenRequests>>

\* one event of run r read from the response and dispatched on its type
ClientReceive(r) ==
  /\ runs[r].cpc = "streaming"
  /\ ~runs[r].aborted
  /\ runs[r].stream # << >>
  /\ LET e == Head(runs[r].stream)
         rest == Tail(runs[r].stream)
     IN CASE e.type = "http_error" -> OnNotOk(r, rest)
          [] e.type = "progress" -> OnProgress(r, e, rest)
          [] e.type = "image" -> OnImage(r, e, rest)
          [] e.type = "error" -> OnError(r, e, rest)
          [] e.type = "complete" -> OnComplete(r, e, rest)
  /\ UNCHANGED <<apiKey, appMode, storeBuilderStep, storeDescription, file,
                 generatedProducts, photoStyle, regeneratingFilename,
                 showResumeBanner, loadPending, loadSnapshot, regenRequests>>

\* reader.read() reports done: the loop ends and the finally block runs
ClientStreamEnd(r) ==
  /\ runs[r].cpc = "streaming"
  /\ ~runs[r].aborted
  /\ runs[r].stream = << >>
  /\ runs[r].spc \in {"done", "stopped"}
  /\ runs' = Settle([runs EXCEPT ![r].cpc = "closed"])
  /\ Finally(r)
  /\ UNCHANGED <<apiKey, progress, images, error, isComplete, appMode,
                 storeBuilderStep, storeDescription, file, generatedProducts,
                 photoStyle, regeneratingFilename, generationSession,
                 showResumeBanner, db, loadPending, loadSnapshot, regenRequests>>

\* the pending fetch or read of an aborted controller rejects with an
\* AbortError: nothing is reported and the finally block runs
ClientAbortError(r) ==
  /\ runs[r].cpc = "streaming"
  /\ runs[r].aborted
  /\ runs' = Settle([runs EXCEPT ![r].cpc = "closed", ![r].stream = << >>])
  /\ Finally(r)
  /\ UNCHANGED <<apiKey, progress, images, error, isComplete, appMode,
                 storeBuilderStep, storeDescription, file, generatedProducts,
                 photoStyle, regeneratingFilename, generationSession,
                 showResumeBanner, db, loadPending, loadSnapshot, regenRequests>>

\* the fetch or a read rejects with an error that is no AbortError (the
\* connection broke): the catch block shows the message and the finally
\* block runs; the server finds its connection closed
ClientNetworkError(r) ==
  /\ runs[r].cpc = "streaming"
  /\ ~runs[r].aborted
  /\ runs' = Settle([runs EXCEPT ![r] =
                       [CancelRequested(@) EXCEPT !.cpc = "closed",
                                                  !.stream = << >>]])
  /\ error' = 1
  /\ Finally(r)
  /\ UNCHANGED <<apiKey, progress, images, isComplete, appMode,
                 storeBuilderStep, storeDescription, file, generatedProducts,
                 photoStyle, regeneratingFilename, generationSession,
                 showResumeBanner, db, loadPending, loadSnapshot,
                 regenRequests>>

\* handleCancel: the Cancel button of the progress bar aborts the controller
handleCancel ==
  /\ showImageGeneration
  /\ IF abortControllerRef = 0
     THEN UNCHANGED vars
     ELSE /\ runs' = [runs EXCEPT ![abortControllerRef] =
                        [CancelRequested(@) EXCEPT !.aborted = TRUE]]
          /\ abortControllerRef' = 0
          /\ UNCHANGED <<apiKey, isGenerating, progress, images, error,
                         isComplete, appMode, storeBuilderStep,
                         storeDescription, file, generatedProducts, photoStyle,
                         regeneratingFilename, generationSession,
                         showResumeBanner, db, loadPending, loadSnapshot, regenRequests>>

\* ----------------------------------------------- the server's orchestrator
MaxAttempts == 3

\* the product group of variant p: the variants sharing its productNumber,
\* in input order
Group(products, p) == SelectSeq(products, LAMBDA q : q.pn = p.pn)

\* the positions of the first members of the groups, in input order
AnchorPositions(products) ==
  {k \in 1..Len(products) : \A j \in 1..(k - 1) : products[j].pn # products[k].pn}

RECURSIVE ConcatGroups(_, _)
ConcatGroups(products, anchors) ==
  IF anchors = {} THEN << >>
  ELSE LET first == CHOOSE k \in anchors : \A j \in anchors : k <= j
       IN Group(products, products[first])
            \o ConcatGroups(products, anchors \ {first})

\* an orchestrator that takes the variants as they come, without grouping
ServerOrderAsGiven(products) == products

\* start(variants): groups in input order, and within a group its variants
\* in input order
ServerOrder(products) == ConcatGroups(products, AnchorPositions(products))

\* a start that detects no collision
ServerCollisionNever(products) == FALSE

ServerCollision(products) ==
  \E j, k \in 1..Len(products) :
     j # k /\ CanonicalFilename(products[j]) = CanonicalFilename(products[k])

\* the preconditions of start: a non-empty list, a non-empty style (a CSV
\* row brings its own prompt), no two records deriving the same filename
ServerPreconditions(run) ==
  /\ Len(run.products) > 0
  /\ run.kind = "sb" => Trim(run.style) # << >>
  /\ ~ServerCollision(run.products)

\* a resolver that never hands out a reference
ServerResolveReferenceNone(order, results, k) == 0

\* resolveReference(group, variant, producedSoFar) for the variant at
\* position k of the order: 0 for no reference, else the position of the
\* anchor, whose image was produced
ServerResolveReference(order, results, k) ==
  LET a == CHOOSE j \in 1..k :
             /\ order[j].pn = order[k].pn
             /\ \A h \in 1..(j - 1) : order[h].pn # order[k].pn
  IN IF a = k THEN 0
     ELSE IF a <= Len(results) /\ results[a] = "image" THEN a
     ELSE 0

\* the request arrives: start validates its preconditions
ServerStart(r) ==
  /\ runs[r].spc = "received"
  /\ IF ServerPreconditions(runs[r])
     THEN runs' = [runs EXCEPT ![r].spc = "boundary"]
     ELSE runs' = [runs EXCEPT
                     ![r].spc = "refused",
                     ![r].stream = <<Event("http_error", 0, 0, << >>)>>]
  /\ UNCHANGED <<apiKey, isGenerating, progress, images, error, isComplete,
                 abortControllerRef, appMode, storeBuilderStep,
                 storeDescription, file, generatedProducts, photoStyle,
                 regeneratingFilename, generationSession, showResumeBanner,
                 db, loadPending, loadSnapshot, regenRequests>>

\* a variant boundary that does not poll cancel
ServerNextVariantNoPoll(r) ==
  /\ runs[r].spc = "boundary"
  /\ Len(runs[r].stream) < MaxBuffered
  /\ LET run == runs[r]
         order == ServerOrder(run.products)
     IN IF run.i < Len(order)
        THEN runs' = [runs EXCEPT
               ![r].spc = "attempt",
               ![r].i = run.i + 1,
               ![r].attempt = 1,
               ![r].cls = "none",
               ![r].refs = Append(@, ServerResolveReference(
                                       order, run.results, run.i + 1)),
               ![r].stream = Append(@, Event("progress", run.i + 1,
                                             Len(order), << >>))]
        ELSE runs' = [runs EXCEPT
               ![r].spc = "done",
               ![r].stream = Append(@, Event("complete", 0, 0, << >>))]
  /\ UNCHANGED <<apiKey, isGenerating, progress, images, error, isComplete,
                 abortControllerRef, appMode, storeBuilderStep,
                 storeDescription, file, generatedProducts, photoStyle,
                 regeneratingFilename, generationSession, showResumeBanner,
                 db, loadPending, loadSnapshot, regenRequests>>

\* a variant boundary: cancel is polled here; the next variant is announced
\* by a progress event and its reference resolved, or complete is emitted
ServerNextVariant(r) ==
  /\ runs[r].spc = "boundary"
  /\ LET run == runs[r]
         order == ServerOrder(run.products)
     IN IF run.cancelled
        THEN runs' = Settle([runs EXCEPT ![r].spc = "stopped"])
        ELSE /\ Len(run.stream) < MaxBuffered
             /\ IF run.i < Len(order)
                THEN runs' = [runs EXCEPT
                       ![r].spc = "attempt",
                       ![r].i = run.i + 1,
                       ![r].attempt = 1,
                       ![r].cls = "none",
                       ![r].refs = Append(@, ServerResolveReference(
                                               order, run.results, run.i + 1)),
                       ![r].stream = Append(@, Event("progress", run.i + 1,
                                                     Len(order), << >>))]
                ELSE runs' = [runs EXCEPT
                       ![r].spc = "done",
                       ![r].stream = Append(@, Event("complete", 0, 0, << >>))]
  /\ UNCHANGED <<apiKey, isGenerating, progress, images, error, isComplete,
                 abortControllerRef, appMode, storeBuilderStep,
                 storeDescription, file, generatedProducts, photoStyle,
                 regeneratingFilename, generationSession, showResumeBanner,
                 db, loadPending, loadSnapshot, regenRequests>>

Outcomes == {"ok", "transient", "permanent"}

\* a terminal step that emits the image events only: a failed variant ends
\* without an event
ServerTerminalDropsError(run, result, cls, event) ==
  IF run.cancelled
  THEN [run EXCEPT !.spc = "stopped", !.cls = cls]
  ELSE [run EXCEPT !.spc = "boundary", !.cls = cls,
                   !.results = Append(@, result),
                   !.stream = IF result = "error" THEN @ ELSE Append(@, event)]

\* the terminal event of the variant in hand; the result of a cancelled
\* run's call is discarded, and the boundary that follows ends the run
ServerTerminal(run, result, cls, event) ==
  IF run.cancelled
  THEN [run EXCEPT !.spc = "stopped", !.cls = cls]
  ELSE [run EXCEPT !.spc = "boundary", !.cls = cls,
                   !.results = Append(@, result),
                   !.stream = Append(@, event)]

\* a retry policy that does not look at the class of the failure
ServerRetriesAnyClass(run, cls) ==
  run.attempt < MaxAttempts /\ ~run.cancelled

\* whether a failed attempt of class cls is followed by another attempt: a
\* cancelled run makes no further call
ServerRetries(run, cls) ==
  cls = "transient" /\ run.attempt < MaxAttempts /\ ~run.cancelled

\* generate(variant, styleDirectives, referenceImage?): one call of the
\* upstream capability, which answers with an image or fails
ServerAttempt(r, outcome) ==
  /\ runs[r].spc = "attempt"
  /\ runs[r].cancelled \/ Len(runs[r].stream) < MaxBuffered
  /\ LET run == runs[r]
         order == ServerOrder(run.products)
     IN runs' = Settle([runs EXCEPT ![r] =
          IF outcome = "ok"
          THEN ServerTerminal(run, "image", run.cls,
                 Event("image", 0, 0, CanonicalFilename(order[run.i])))
          ELSE IF ServerRetries(run, outcome)
          THEN [run EXCEPT !.attempt = @ + 1, !.cls = outcome]
          ELSE ServerTerminal(run, "error", outcome,
                              Event("error", 0, 0, << >>))])
  /\ UNCHANGED <<apiKey, isGenerating, progress, images, error, isComplete,
                 abortControllerRef, appMode, storeBuilderStep,
                 storeDescription, file, generatedProducts, photoStyle,
                 regeneratingFilename, generationSession, showResumeBanner,
                 db, loadPending, loadSnapshot, regenRequests>>

\* ------------------------------------------------------ reload and mount
\* the page is closed or reloaded: its connections close, which the server
\* takes as a cancel request, and nothing of it runs any more
Unloaded(run) ==
  IF run.cpc = "closed" THEN run
  ELSE [CancelRequested(run) EXCEPT !.cpc = "closed", !.aborted = TRUE,
                                    !.stream = << >>]

\* the mount effect's step repair: a step that needs products (and a brand,
\* which is set and cleared with them) falls back to 'input'
MountedStep ==
  IF storeBuilderStep \in {"review", "style", "shopify"}
     /\ Len(generatedProducts) = 0
  THEN "input" ELSE storeBuilderStep

\* a detection that takes a ledger without a completed filename for no
\* session at all
InterruptedSessionStarted(session) ==
  /\ session # NoSession
  /\ session.mode = "store-builder"
  /\ Len(session.completedFilenames) > 0
  /\ Len(session.completedFilenames) < session.totalCount

\* the mount effect's detection of an interrupted session
InterruptedSession(session) ==
  /\ session # NoSession
  /\ session.mode = "store-builder"
  /\ Len(session.completedFilenames) < session.totalCount

\* the page is loaded again: useState starts over, the persisted values
\* stay, and the mount effect runs up to its loadAllImages() call
Reload ==
  /\ runs' = Settle([r \in RunIds |-> Unloaded(runs[r])])
  /\ isGenerating' = FALSE
  /\ progress' = [current |-> 0, total |-> 0]
  /\ images' = << >>
  /\ error' = 0
  /\ isComplete' = FALSE
  /\ abortControllerRef' = 0
  /\ file' = << >>
  /\ regeneratingFilename' = << >>
  /\ regenRequests' = << >>
  /\ storeBuilderStep' = MountedStep
  /\ showResumeBanner' = InterruptedSession(generationSession)
  /\ loadPending' = TRUE
  /\ loadSnapshot' = NoSnapshot
  /\ UNCHANGED <<apiKey, appMode, storeDescription, generatedProducts,
                 photoStyle, generationSession, db>>

\* loadAllImages(): db.getAll(STORE_NAME) reads the store
LoadAllImagesRead ==
  /\ loadPending
  /\ ~loadSnapshot.read
  /\ loadSnapshot' = [read |-> TRUE, stored |-> GetAll(db)]
  /\ UNCHANGED <<apiKey, isGenerating, progress, images, error, isComplete,
                 abortControllerRef, appMode, storeBuilderStep,
                 storeDescription, file, generatedProducts, photoStyle,
                 regeneratingFilename, generationSession, showResumeBanner,
                 db, loadPending, runs, regenRequests>>

\* loadAllImages().then(stored => ...) of the mount effect
LoadAllImagesResolved ==
  /\ loadPending
  /\ loadSnapshot.read
  /\ loadPending' = FALSE
  /\ loadSnapshot' = NoSnapshot
  /\ IF loadSnapshot.stored # << >>
     THEN images' = loadSnapshot.stored /\ isComplete' = TRUE
     ELSE UNCHANGED <<images, isComplete>>
  /\ UNCHANGED <<apiKey, isGenerating, progress, error, abortControllerRef,
                 appMode, storeBuilderStep, storeDescription, file,
                 generatedProducts, photoStyle, regeneratingFilename,
                 generationSession, showResumeBanner, db, runs, regenRequests>>

\* --------------------------------------------------- clearing and moving
AppModes == {"store-builder", "csv-upload"}

\* handleModeChange(mode): a button of the mode selector
handleModeChange(mode) ==
  /\ ~isGenerating
  /\ appMode' = mode
  /\ error' = 0
  /\ images' = << >>
  /\ isComplete' = FALSE
  /\ db' = {}
  /\ UNCHANGED <<apiKey, isGenerating, progress, abortControllerRef,
                 storeBuilderStep, storeDescription, file, generatedProducts,
                 photoStyle, regeneratingFilename, generationSession,
                 showResumeBanner, loadPending, loadSnapshot, runs, regenRequests>>

\* handleStartNew: the Start New link
handleStartNew ==
  /\ StartNewEnabled
  /\ storeDescription' = FALSE
  /\ generatedProducts' = << >>
  /\ photoStyle' = << >>
  /\ images' = << >>
  /\ storeBuilderStep' = "input"
  /\ file' = << >>
  /\ error' = 0
  /\ isComplete' = FALSE
  /\ generationSession' = NoSession
  /\ showResumeBanner' = FALSE
  /\ db' = {}
  /\ UNCHANGED <<apiKey, isGenerating, progress, abortControllerRef, appMode,
                 regeneratingFilename, loadPending, loadSnapshot, runs, regenRequests>>

\* the Back to Photo Style button above the gallery
BackToPhotoStyle ==
  /\ BackToPhotoStyleShown
  /\ images' = << >>
  /\ db' = {}
  /\ isComplete' = FALSE
  /\ error' = 0
  /\ generationSession' = NoSession
  /\ showResumeBanner' = FALSE
  /\ storeBuilderStep' = "style"
  /\ UNCHANGED <<apiKey, isGenerating, progress, abortControllerRef, appMode,
                 storeDescription, file, generatedProducts, photoStyle,
                 regeneratingFilename, loadPending, loadSnapshot, runs, regenRequests>>

\* onPhotoStyleChange: the textarea and the presets of the photo-style step
setPhotoStyle(style) ==
  /\ PhotoStyleSelectorShown
  /\ ~isGenerating
  /\ photoStyle' = style
  /\ UNCHANGED <<apiKey, isGenerating, progress, images, error, isComplete,
                 abortControllerRef, appMode, storeBuilderStep,
                 storeDescription, file, generatedProducts,
                 regeneratingFilename, generationSession, showResumeBanner,
                 db, loadPending, loadSnapshot, runs, regenRequests>>

RemoveAt(s, j) == SubSeq(s, 1, j - 1) \o SubSeq(s, j + 1, Len(s))

\* ------------------------------------------------------ the product table
\* String(n) for a row count
Digit(n) ==
  CASE n = 1 -> "1" [] n = 2 -> "2" [] n = 3 -> "3" [] n = 4 -> "4"
    [] n = 5 -> "5" [] n = 6 -> "6" [] n = 7 -> "7" [] n = 8 -> "8"
    [] OTHER -> "9"

\* `PROD-${String(nextNumber).padStart(3, '0')}`
ProdNumber(n) == <<"P", "R", "O", "D", "-", "0", "0", Digit(n)>>

\* the review step's ProductEditor, with its ProductTable
ProductEditorShown ==
  /\ appMode = "store-builder"
  /\ storeBuilderStep = "review"
  /\ ~showImageGeneration
  /\ ~showGallery

\* p.ProductNumber && p.ProductName && p.ColorName
ValidProduct(p) == p.pn # << >> /\ p.named

validProducts == SelectSeq(generatedProducts, ValidProduct)

canApprove == Len(validProducts) > 0 /\ ~isGenerating

\* handleAdd: the Add Product button appends a row numbered by the row count
handleAdd ==
  /\ ProductEditorShown
  /\ ~isGenerating
  /\ Len(generatedProducts) < MaxProducts
  /\ generatedProducts' =
       Append(generatedProducts,
              Variant(ProdNumber(Len(generatedProducts) + 1), <<"U">>, << >>,
                      FALSE))
  /\ UNCHANGED <<apiKey, isGenerating, progress, images, error, isComplete,
                 abortControllerRef, appMode, storeBuilderStep,
                 storeDescription, file, photoStyle, regeneratingFilename,
                 generationSession, showResumeBanner, db, loadPending,
                 loadSnapshot, runs, regenRequests>>

\* handleDelete(index): the delete button of a row
handleDelete(index) ==
  /\ ProductEditorShown
  /\ ~isGenerating
  /\ index \in 1..Len(generatedProducts)
  /\ generatedProducts' = RemoveAt(generatedProducts, index)
  /\ UNCHANGED <<apiKey, isGenerating, progress, images, error, isComplete,
                 abortControllerRef, appMode, storeBuilderStep,
                 storeDescription, file, photoStyle, regeneratingFilename,
                 generationSession, showResumeBanner, db, loadPending,
                 loadSnapshot, runs, regenRequests>>

\* handleFieldChange(index, field, value) for the ProductName and ColorName
\* inputs of a row: the row has both names (named), or lacks one of them
handleFieldChange(index, named) ==
  /\ ProductEditorShown
  /\ ~isGenerating
  /\ index \in 1..Len(generatedProducts)
  /\ generatedProducts' = [generatedProducts EXCEPT ![index].named = named]
  /\ UNCHANGED <<apiKey, isGenerating, progress, images, error, isComplete,
                 abortControllerRef, appMode, storeBuilderStep,
                 storeDescription, file, photoStyle, regeneratingFilename,
                 generationSession, showResumeBanner, db, loadPending,
                 loadSnapshot, runs, regenRequests>>

\* handleApproveProducts: the Choose Photo Style button, disabled={!canApprove}
handleApproveProducts ==
  /\ ProductEditorShown
  /\ canApprove
  /\ IF Len(generatedProducts) = 0
     THEN UNCHANGED vars
     ELSE /\ storeBuilderStep' = "style"
          /\ UNCHANGED <<apiKey, isGenerating, progress, images, error,
                         isComplete, abortControllerRef, appMode,
                         storeDescription, file, generatedProducts, photoStyle,
                         regeneratingFilename, generationSession,
                         showResumeBanner, db, loadPending, loadSnapshot,
                         runs, regenRequests>>

\* handleBackToReview: the Back button of the photo-style step
handleBackToReview ==
  /\ PhotoStyleSelectorShown
  /\ ~isGenerating
  /\ storeBuilderStep' = "review"
  /\ UNCHANGED <<apiKey, isGenerating, progress, images, error, isComplete,
                 abortControllerRef, appMode, storeDescription, file,
                 generatedProducts, photoStyle, regeneratingFilename,
                 generationSession, showResumeBanner, db, loadPending,
                 loadSnapshot, runs, regenRequests>>

\* ------------------------------------------------- single-item regeneration
\* handleRegenerate without its setRegeneratingFilename(filename)
handleRegenerateNoMark(k) ==
  /\ RegenerateEnabled
  /\ k \in 1..Len(images)
  /\ Len(regenRequests) < MaxRegen
  /\ IF ~apiKey \/ regeneratingFilename # << >>
     THEN UNCHANGED vars
     ELSE /\ error' = 0
          /\ regenRequests' = Append(regenRequests, images[k])
          /\ UNCHANGED <<apiKey, isGenerating, progress, images, isComplete,
                         abortControllerRef, appMode, storeBuilderStep,
                         storeDescription, file, generatedProducts, photoStyle,
                         regeneratingFilename, generationSession,
                         showResumeBanner, db, loadPending, loadSnapshot, runs>>

\* handleRegenerate(filename, image) up to its fetch: the regenerate button
\* of the gallery entry at position k
handleRegenerate(k) ==
  /\ RegenerateEnabled
  /\ k \in 1..Len(images)
  /\ Len(regenRequests) < MaxRegen
  /\ IF ~apiKey \/ regeneratingFilename # << >>
     THEN UNCHANGED vars
     ELSE /\ regeneratingFilename' = images[k].filename
          /\ error' = 0
          /\ regenRequests' = Append(regenRequests, images[k])
          /\ UNCHANGED <<apiKey, isGenerating, progress, images, isComplete,
                         abortControllerRef, appMode, storeBuilderStep,
                         storeDescription, file, generatedProducts, photoStyle,
                         generationSession, showResumeBanner, db, loadPending, loadSnapshot,
                         runs>>

\* setImages(prev => prev.map(img => img.filename === filename ? newImg : img))
ReplaceImage(list, newImg) ==
  [k \in 1..Len(list) |->
     IF list[k].filename = newImg.filename THEN newImg ELSE list[k]]

\* the answer to the regenerate request at position j: the new image
\* replaces the old one in the list and in the store, or the error is shown
regenerateResolved(j, ok) ==
  /\ j \in 1..Len(regenRequests)
  /\ regenRequests' = RemoveAt(regenRequests, j)
  /\ regeneratingFilename' = << >>
  /\ IF ok
     THEN /\ images' = ReplaceImage(images,
                                    Image(regenRequests[j].filename, "regen"))
          /\ db' = Put(db, Image(regenRequests[j].filename, "regen"))
          /\ UNCHANGED error
     ELSE /\ error' = 1
          /\ UNCHANGED <<images, db>>
  /\ UNCHANGED <<apiKey, isGenerating, progress, isComplete,
                 abortControllerRef, appMode, storeBuilderStep,
                 storeDescription, file, generatedProducts, photoStyle,
                 generationSession, showResumeBanner, loadPending, loadSnapshot, runs>>

\* ------------------------------------------------------------ behaviours
\* the store-builder flow from its photo-style step on: the batch run, its
\* server, its interruption and its recovery
NextStoreBuilder ==
  \/ handleGenerateImages
  \/ \E r \in RunIds : AfterClear(r)
  \/ handleResume
  \/ handleDismissResume
  \/ \E r \in RunIds : ClientReceive(r)
  \/ \E r \in RunIds : ClientStreamEnd(r)
  \/ \E r \in RunIds : ClientAbortError(r)
  \/ handleCancel
  \/ \E r \in RunIds : ServerStart(r)
  \/ \E r \in RunIds : ServerNextVariant(r)
  \/ \E r \in RunIds, o \in Outcomes : ServerAttempt(r, o)
  \/ Reload
  \/ LoadAllImagesRead
  \/ LoadAllImagesResolved
  \/ handleStartNew
  \/ BackToPhotoStyle
  \/ \E st \in PhotoStyles : setPhotoStyle(st)

SpecStoreBuilder == Init /\ [][NextStoreBuilder]_vars

\* the store-builder flow together with the CSV mode and the mode selector
NextModes ==
  \/ NextStoreBuilder
  \/ \E m \in AppModes : handleModeChange(m)
  \/ \E rows \in CsvFiles : handleFileSelect(rows)
  \/ handleGenerate

SpecModes == Init /\ [][NextModes]_vars

\* the gallery of a store-builder run with its regenerate buttons, for a user
\* who leaves a run alone once it is started and keeps the page open
NextGallery ==
  \/ handleGenerateImages
  \/ \E r \in RunIds : AfterClear(r)
  \/ \E r \in RunIds : ClientReceive(r)
  \/ \E r \in RunIds : ClientStreamEnd(r)
  \/ \E r \in RunIds : ServerStart(r)
  \/ \E r \in RunIds : ServerNextVariant(r)
  \/ \E r \in RunIds, o \in Outcomes : ServerAttempt(r, o)
  \/ handleStartNew
  \/ BackToPhotoStyle
  \/ \E st \in PhotoStyles : setPhotoStyle(st)
  \/ \E k \in 1..MaxImages : handleRegenerate(k)
  \/ \E j \in 1..MaxRegen, ok \in BOOLEAN : regenerateResolved(j, ok)

SpecGallery == Init /\ [][NextGallery]_vars

\* the batch run of a page that stays open, with the ways it can end: its
\* stream ends, the request is refused, the connection breaks, the user
\* cancels.  The client handles what has arrived and the server goes on with
\* its run; nothing obliges the user or the network to act.
NextRunEnds ==
  \/ \E st \in PhotoStyles : setPhotoStyle(st)
  \/ handleGenerateImages
  \/ \E r \in RunIds : AfterClear(r)
  \/ \E r \in RunIds : ClientReceive(r)
  \/ \E r \in RunIds : ClientStreamEnd(r)
  \/ \E r \in RunIds : ClientAbortError(r)
  \/ \E r \in RunIds : ClientNetworkError(r)
  \/ handleCancel
  \/ BackToPhotoStyle
  \/ \E r \in RunIds : ServerStart(r)
  \/ \E r \in RunIds : ServerNextVariant(r)
  \/ \E r \in RunIds, o \in Outcomes : ServerAttempt(r, o)

SpecRunEnds ==
  /\ Init
  /\ [][NextRunEnds]_vars
  /\ \A r \in RunIds :
       /\ WF_vars(AfterClear(r))
       /\ WF_vars(ClientReceive(r))
       /\ WF_vars(ClientStreamEnd(r))
       /\ WF_vars(ClientAbortError(r))
       /\ WF_vars(ServerStart(r))
       /\ WF_vars(ServerNextVariant(r))
       /\ WF_vars(\E o \in Outcomes : ServerAttempt(r, o))

\* the review step with its product table, the photo-style step and the
\* batch run started from it, for a user who leaves a run alone
InitReview ==
  /\ apiKey = TRUE
  /\ isGenerating = FALSE
  /\ progress = [current |-> 0, total |-> 0]
  /\ images = << >>
  /\ error = 0
  /\ isComplete = FALSE
  /\ abortControllerRef = 0
  /\ appMode = "store-builder"
  /\ storeBuilderStep = "review"
  /\ storeDescription = TRUE
  /\ file = << >>
  /\ generatedProducts \in ProductLists
  /\ photoStyle = <<"s">>
  /\ regeneratingFilename = << >>
  /\ generationSession = NoSession
  /\ showResumeBanner = FALSE
  /\ db = {}
  /\ loadPending = FALSE
  /\ loadSnapshot = NoSnapshot
  /\ runs = [r \in RunIds |-> FreeRun]
  /\ regenRequests = << >>

NextProductTable ==
  \/ handleAdd
  \/ \E index \in 1..MaxProducts : handleDelete(index)
  \/ \E index \in 1..MaxProducts, named \in BOOLEAN :
       handleFieldChange(index, named)
  \/ handleApproveProducts
  \/ handleBackToReview
  \/ handleGenerateImages
  \/ \E r \in RunIds : AfterClear(r)
  \/ \E r \in RunIds : ClientReceive(r)
  \/ \E r \in RunIds : ClientStreamEnd(r)
  \/ \E r \in RunIds : ServerStart(r)
  \/ \E r \in RunIds : ServerNextVariant(r)
  \/ \E r \in RunIds, o \in Outcomes : ServerAttempt(r, o)
  \/ BackToPhotoStyle

SpecProductTable == InitReview /\ [][NextProductTable]_vars

\* the resume computation on its own: the app as mounted after a run over
\* two variants was interrupted, with the ledger that run left
PnChars == {"A", "M", "-"}

RECURSIVE Strings(_, _)
\* the strings over chars that are at most n long
Strings(chars, n) ==
  IF n = 0 THEN {<< >>}
  ELSE LET shorter == Strings(chars, n - 1)
       IN shorter \cup {<<ch>> \o t : ch \in chars, t \in shorter}

ProductNumbers == Strings(PnChars, MaxPnLen) \ {<< >>}
GenderCodes == {<< >>, <<"M">>, <<"U">>, <<"M", "U">>}
ColorCodes == {<< >>, <<"U">>, <<"B">>}

Variants ==
  {Variant(pn, g, c, TRUE) : pn \in ProductNumbers, g \in GenderCodes,
                             c \in ColorCodes}

\* what the ledger in localStorage holds when the banner's buttons are
\* clicked: nothing, or (of a list the server accepted) the filename of the
\* first image event, or both filenames, the second one appended after this
\* window mounted by the image handler of another window of the application
\* that resumed the same session (the ledger is storage shared by the
\* windows, and handleResume reads it again at the click)
LedgersOf(l) ==
  {<< >>} \cup (IF ServerCollision(l) THEN {}
                ELSE {<<CanonicalFilename(ServerOrder(l)[1])>>,
                      <<CanonicalFilename(ServerOrder(l)[1]),
                        CanonicalFilename(ServerOrder(l)[2])>>})

InitResume ==
  /\ apiKey = TRUE
  /\ isGenerating = FALSE
  /\ progress = [current |-> 0, total |-> 0]
  /\ error = 0
  /\ abortControllerRef = 0
  /\ appMode = "store-builder"
  /\ storeBuilderStep = "style"
  /\ storeDescription = TRUE
  /\ file = << >>
  /\ generatedProducts \in {<<p, q>> : p, q \in Variants}
  /\ photoStyle = <<"s">>
  /\ regeneratingFilename = << >>
  /\ \E done \in LedgersOf(generatedProducts) :
       /\ generationSession =
            [Session("store-builder", TRUE, generatedProducts, 2)
               EXCEPT !.completedFilenames = done]
       /\ db = {Image(done[k], "gen") : k \in 1..Len(done)}
       /\ images = GetAll({Image(done[k], "gen") :
                             k \in {j \in 1..Len(done) : j = 1}})
       /\ isComplete = (done # << >>)
  /\ showResumeBanner = TRUE
  /\ loadPending = FALSE
  /\ loadSnapshot = NoSnapshot
  /\ runs = [r \in RunIds |-> FreeRun]
  /\ regenRequests = << >>

NextResume ==
  \/ handleResume
  \/ handleDismissResume

SpecResume == InitResume /\ [][NextResume]_vars

\* ================================================================== claims
\* C1: for every variant list, a batch run that is not cancelled emits
\* exactly one terminal event (image or error) per input variant, so the
\* image events plus the error events number the input variants, and exactly
\* one complete event is emitted, after all of them.  On the server: a
\* variant has at most one terminal event, complete is emitted by a run that
\* has one for every variant, and it is the last event.  On the client: the
\* complete event is read once, after as many image and error events as the
\* run has variants.
C1_OneTerminalEventPerVariant ==
  \A r \in RunIds :
    LET run == runs[r]
    IN /\ Len(run.results) <= run.i
       /\ run.i <= Len(run.products)
       /\ run.spc = "done" => Len(run.results) = Len(run.products)
       /\ \A k \in 1..Len(run.stream) :
            run.stream[k].type = "complete" =>
              k = Len(run.stream) /\ run.spc = "done"
       /\ run.cImage + run.cError <= Len(run.products)
       /\ run.cComplete <= 1
       /\ run.cComplete = 1 =>
            /\ run.cImage + run.cError = Len(run.products)
            /\ run.stream = << >>

\* a run over three variants whose complete event arrived after images and
\* errors
C1_Witness ==
  \E r \in RunIds :
    /\ runs[r].cComplete = 1
    /\ Len(runs[r].products) >= 3
    /\ runs[r].cImage >= 1
    /\ runs[r].cError >= 1

\* C2: for every variant list and every N, if cancel is requested after N
\* variants have started, at most N+1 variants ever reach a terminal event
\* (image or error) and no complete event is emitted for that run.
C2_CancelStopsTheRun ==
  \A r \in RunIds :
    runs[r].cancelled =>
      /\ Len(runs[r].results) <= runs[r].startedAtCancel + 1
      /\ runs[r].spc # "done"
      /\ \A k \in 1..Len(runs[r].stream) : runs[r].stream[k].type # "complete"

\* a run cancelled in the middle of its list that stopped
C2_Witness ==
  \E r \in RunIds :
    /\ runs[r].cancelled
    /\ runs[r].spc = "stopped"
    /\ runs[r].startedAtCancel >= 1
    /\ runs[r].startedAtCancel < Len(runs[r].products)

\* C3: for every variant of the session's stored list, handleResume excludes
\* the variant from the resumed list if and only if its canonical filename
\* (productNumber with all non-alphanumeric characters removed, then
\* genderCode or the neutral default, then colorCode or the empty string) is
\* in the ledger's completed-filename set; so no variant whose image event
\* was recorded is generated again.  Stated of a resumed run as handed to the
\* server, before any of its events.
C3_ResumeExcludesCompleted ==
  \A r \in RunIds :
    (runs[r].isResume /\ runs[r].spc = "received") =>
      runs[r].products =
        SelectSeq(generationSession.products,
                  LAMBDA p : CanonicalFilename(p)
                               \notin Range(generationSession.completedFilenames))

\* C4 as written: the derivation is deterministic, and injective over any
\* variant list in which no two variants share (productNumber, genderCode,
\* colorCode).
C4_DerivationInjective ==
  LET l == generationSession.products
  IN /\ \A k \in 1..Len(l) : ResumeFilename(l[k]) = ResumeFilename(l[k])
     /\ (\A j, k \in 1..Len(l) :
           j # k => <<l[j].pn, l[j].g, l[j].c>> # <<l[k].pn, l[k].g, l[k].c>>)
        => \A j, k \in 1..Len(l) :
             j # k => ResumeFilename(l[j]) # ResumeFilename(l[k])

\* the parts the derivation concatenates
DerivedParts(p) == <<StripDashes(p.pn), GenderOrDefault(p.g), p.c>>

\* C4: the filename derivation is deterministic, and it is injective over
\* any variant list in which no two variants share (productNumber with its
\* dashes removed, genderCode or 'U' when absent, colorCode) and in which
\* the dash-free product numbers are all of one length and the gender codes
\* are all of one length.
C4_DerivationInjectiveOnParts ==
  LET l == generationSession.products
      OneShape ==
        \A j, k \in 1..Len(l) :
          /\ Len(DerivedParts(l[j])[1]) = Len(DerivedParts(l[k])[1])
          /\ Len(DerivedParts(l[j])[2]) = Len(DerivedParts(l[k])[2])
  IN /\ \A k \in 1..Len(l) : ResumeFilename(l[k]) = ResumeFilename(l[k])
     /\ (OneShape /\ \A j, k \in 1..Len(l) :
                       j # k => DerivedParts(l[j]) # DerivedParts(l[k]))
        => \A j, k \in 1..Len(l) :
             j # k => ResumeFilename(l[j]) # ResumeFilename(l[k])

\* a resumed run over two variants of one dashed product number that differ
\* in the colour code only
C4_Witness ==
  \E r \in RunIds :
    /\ runs[r].isResume
    /\ runs[r].products = generationSession.products
    /\ Len(runs[r].products) = 2
    /\ runs[r].products[1].pn = <<"A", "-">>
    /\ runs[r].products[2].pn = <<"A", "-">>
    /\ runs[r].products[1].g = runs[r].products[2].g
    /\ runs[r].products[1].c # runs[r].products[2].c

\* C5: at most one single-item regeneration is in flight at any time: a
\* regenerate request issued while another one is pending, for the same or
\* for another filename, is rejected without a request being sent.
C5_OneRegenerationInFlight ==
  /\ Len(regenRequests) <= 1
  /\ regenRequests # << >> =>
       regeneratingFilename = regenRequests[1].filename
  /\ regeneratingFilename # << >> => Len(regenRequests) = 1

\* a regeneration is pending while the gallery shows another image too
C5_Witness ==
  /\ Len(regenRequests) = 1
  /\ GalleryShown
  /\ \E k \in 1..Len(images) : images[k].filename # regenRequests[1].filename

\* the position of the anchor of the variant at position k of an order: the
\* first variant with its productNumber
AnchorOf(order, k) ==
  CHOOSE a \in 1..k :
    order[a].pn = order[k].pn /\ \A h \in 1..(a - 1) : order[h].pn # order[k].pn

\* C6: for every product group with an anchor (its first-listed variant)
\* and at least one follower: if the anchor's generation succeeded, every
\* follower's generation request carries the anchor's image as reference; if
\* the anchor failed, every follower is still generated, with no reference.
C6_FollowersCarryTheAnchor ==
  \A r \in RunIds :
    LET run == runs[r]
        order == ServerOrder(run.products)
    IN /\ \A k \in 1..Len(run.refs) :
            LET a == AnchorOf(order, k)
            IN IF a = k THEN run.refs[k] = 0
               ELSE /\ a <= Len(run.results)
                    /\ run.results[a] = "image" => run.refs[k] = a
                    /\ run.results[a] = "error" => run.refs[k] = 0
       /\ run.spc = "done" => Len(run.refs) = Len(order)

\* a finished run in which a follower was generated with its anchor's image
C6_Witness ==
  \E r \in RunIds :
    /\ runs[r].spc = "done"
    /\ \E k \in 1..Len(runs[r].refs) :
         /\ runs[r].refs[k] # 0
         /\ runs[r].results[k] = "image"

\* C7: a variant whose attempts fail 3 consecutive times with a
\* transient-class error gets exactly 3 attempts, exactly one error event
\* and no image event; a variant whose first attempt fails with a
\* permanent-class error gets exactly 1 attempt and one error event.  So: no
\* variant gets a fourth attempt, an attempt after the first follows a
\* transient failure only, and a variant that ended in an error either made
\* 3 attempts or met a permanent failure at its last one.
C7_RetryCap ==
  \A r \in RunIds :
    LET run == runs[r]
    IN /\ run.attempt <= 3
       /\ (run.spc = "attempt" /\ run.attempt > 1) => run.cls = "transient"
       /\ (run.spc = "boundary" /\ run.i >= 1 /\ Len(run.results) = run.i
           /\ run.results[run.i] = "error") =>
            \/ run.cls = "transient" /\ run.attempt = 3
            \/ run.cls = "permanent"

\* a variant ended in an error after three transient failures
C7_Witness ==
  \E r \in RunIds :
    /\ runs[r].spc = "boundary"
    /\ runs[r].i >= 1
    /\ Len(runs[r].results) = runs[r].i
    /\ runs[r].results[runs[r].i] = "error"
    /\ runs[r].cls = "transient"
    /\ runs[r].attempt = 3

\* C8: a terminal failure of one variant never ends the batch.  On the
\* server, a failed variant leaves the run at its next boundary, and a run
\* that leaves a boundary without a cancel request starts the next variant
\* or, at the end of its list, emits complete, whatever failed before.  On
\* the client, reading an error event appends its message and changes
\* nothing else: the run stays active.
C8_FailureDoesNotEndTheBatch ==
  [][\A r \in RunIds :
       LET run == runs[r]
           after == runs'[r]
       IN /\ (/\ run.spc = "attempt"
              /\ Len(after.results) = Len(run.results) + 1
              /\ after.results[Len(after.results)] = "error")
             => (after.spc = "boundary" /\ after.i = run.i)
          /\ (/\ run.spc = "boundary"
              /\ ~run.cancelled
              /\ after.spc \notin {"boundary", "unsent"})
             => IF run.i < Len(run.products)
                THEN after.spc = "attempt" /\ after.i = run.i + 1
                ELSE /\ after.spc = "done"
                     /\ after.stream # << >>
                     /\ after.stream[Len(after.stream)].type = "complete"
          /\ (/\ run.cpc = "streaming"
              /\ ~run.aborted
              /\ run.stream # << >>
              /\ Head(run.stream).type = "error"
              /\ error' = error + 1)
             => /\ after.cpc = "streaming"
                /\ ~after.aborted
                /\ isGenerating'
                /\ abortControllerRef' = abortControllerRef
                /\ images' = images
                /\ db' = db
                /\ generationSession' = generationSession
                /\ isComplete' = isComplete
                /\ progress' = progress
    ]_vars

\* every variant of a run failed and its complete event arrived all the same
C8_Witness ==
  \E r \in RunIds :
    /\ runs[r].cComplete = 1
    /\ Len(runs[r].products) >= 2
    /\ runs[r].cError = Len(runs[r].products)
    /\ error = runs[r].cError

\* C9: at most one batch run is active at any time: a start request
\* (handleGenerate, handleGenerateImages or handleResume) made while a run
\* is active does not open a second event stream and does not replace the
\* active run's abort controller.
C9_OneActiveRun ==
  /\ Cardinality({r \in RunIds : ClientActive(r)}) <= 1
  /\ \A r \in RunIds :
       ClientActive(r) =>
         /\ isGenerating
         /\ abortControllerRef = (IF runs[r].aborted THEN 0 ELSE r)

\* a run is active while the photo-style step still shows its Generate
\* button
C9_Witness ==
  \E r \in RunIds :
    /\ runs[r].cpc = "clearing"
    /\ PhotoStyleSelectorShown
    /\ Trim(photoStyle) # << >>

\* the ledger records a run that was neither completed nor discarded
Unresolved(session) ==
  /\ session # NoSession
  /\ Len(session.completedFilenames) < session.totalCount

\* C10: a new (non-resume) batch run never starts while the ledger still
\* records an unresolved prior run: the prior session is resumed or
\* discarded first, so a start never overwrites a ledger that has fewer
\* completed filenames than its total.  Stated of a non-resume run between
\* its start and its write of the new ledger.
C10_NoStartOverUnresolvedLedger ==
  \A r \in RunIds :
    runs[r].cpc = "clearing" => ~Unresolved(generationSession)

C12_ResumeComputationIdempotent ==
  LET s == generationSession
  IN /\ Remaining(s) = Remaining(s)
     /\ Remaining([s EXCEPT !.products = Remaining(s)]) = Remaining(s)
     /\ s.completedFilenames = << >> => Remaining(s) = s.products
     /\ \A r \in RunIds :
          (runs[r].isResume /\ runs[r].spc = "received") =>
            runs[r].products = Remaining(s)

\* a Resume click on a ledger of two variants with one image recorded
\* started a run over the one variant left
C12_Witness ==
  \E r \in RunIds :
    /\ runs[r].isResume
    /\ Len(generationSession.products) = 2
    /\ Len(generationSession.completedFilenames) = 1
    /\ Len(runs[r].products) = 1

\* C13: ledger operations are idempotent: recording the completion of the
\* same filename twice leaves the ledger (its completed list, and so its
\* length compared with totalCount) the same as recording it once, and
\* clearing twice equals clearing once.  Stated of the ledger of every
\* reachable state and the filename of every variant it lists.
C13_LedgerOperationsIdempotent ==
  LET s == generationSession
  IN \A p \in Range(s.products) :
       RecordCompletion(RecordCompletion(s, CanonicalFilename(p)),
                        CanonicalFilename(p))
         = RecordCompletion(s, CanonicalFilename(p))

\* what an event of a run can change on the client
EventState == <<images, db, generationSession, error, isComplete>>

\* C14: cancellation is not an error and ends the run silently: after
\* Cancel, no further image, error or complete event of that run changes the
\* client state (the image list, the persisted cache, the ledger, the error
\* message and isComplete stay as they were at the moment of cancel), and
\* the result of an attempt still in flight is discarded.  Stated of a run
\* whose request was sent: while it is aborted and still open it reads no
\* event and nothing of the client state changes but by the mount effect's
\* load; when it closes (and the page was not reloaded) the finally block
\* runs and the client state is left as it was; and on the server a
\* cancelled run's attempt ends in no result and no event.
C14_CancelEndsTheRunSilently ==
  [][\A r \in RunIds :
       LET run == runs[r]
           after == runs'[r]
       IN /\ (run.aborted /\ run.cpc = "streaming") =>
               IF after.cpc = "streaming"
               THEN /\ after.cImage = run.cImage
                    /\ after.cError = run.cError
                    /\ after.cComplete = run.cComplete
                    /\ loadPending' = loadPending => EventState' = EventState
               ELSE progress' = progress =>
                      (EventState' = EventState /\ ~isGenerating')
          /\ (run.cancelled /\ run.spc = "attempt" /\ after.spc # "attempt") =>
               /\ after.spc \in {"stopped", "unsent"}
               /\ Len(after.results) <= Len(run.results)
               /\ Len(after.stream) <= Len(run.stream)
    ]_vars

\* Cancel was clicked while an image event of the run waits to be read
C14_Witness ==
  \E r \in RunIds :
    /\ runs[r].aborted
    /\ runs[r].cpc = "streaming"
    /\ runs[r].stream # << >>
    /\ Head(runs[r].stream).type = "image"

\* a step that mounts the app: the load of the stored images starts, or a
\* run that was going is gone with its progress
Mounts ==
  \/ ~loadPending /\ loadPending'
  \/ isGenerating /\ ~isGenerating' /\ loadPending' /\ progress'.total = 0

\* C15: whenever a store-builder batch run is interrupted (tab closed, or
\* run ended without complete) with fewer images recorded than the declared
\* total, the next mount of the app shows the resume banner; the banner is
\* shown on mount exactly when the persisted session has mode store-builder
\* and fewer completed filenames than totalCount.  A mount keeps the ledger
\* and shows the banner exactly in that case; and closing the tab on a
\* store-builder run that reads its events with fewer filenames recorded
\* than its ledger's total is such a case.
C15_BannerOnMount ==
  [][Mounts =>
       LET s == generationSession
       IN /\ generationSession' = s
          /\ ResumeBannerShown' <=>
               /\ s # NoSession
               /\ s.mode = "store-builder"
               /\ Len(s.completedFilenames) < s.totalCount
          /\ \A r \in RunIds :
               (/\ runs[r].kind = "sb"
                /\ runs[r].cpc = "streaming"
                /\ Len(s.completedFilenames) < s.totalCount)
               => ResumeBannerShown'
    ]_vars

\* the app was mounted on the ledger of a run that had recorded an image,
\* and shows the banner
C15_Witness ==
  /\ loadPending
  /\ ResumeBannerShown
  /\ Len(generationSession.completedFilenames) >= 1

\* C16: a session of a mode that stored no variant list (CSV mode, products
\* = null) can never be resumed: a resume of it starts no run, and the
\* interrupted session is reported to the user as requiring generation to
\* restart from zero.  While the ledger is a CSV one no resumed run starts,
\* and a mount on an unfinished CSV ledger shows the interrupted-session
\* banner (without a Resume button).
C16_CsvSessionReportedNotResumed ==
  [][LET s == generationSession
     IN s.mode = "csv" =>
          /\ \A r \in RunIds : runs'[r].isResume => runs[r].isResume
          /\ (Mounts /\ Len(s.completedFilenames) < s.totalCount) =>
               (ResumeBannerShown' /\ ~ResumeButtonShown')
    ]_vars

\* C17: when every variant of the session's list has its filename in the
\* completed set, Resume starts no run (no request is sent, isGenerating
\* stays false), hides the banner and clears the ledger.  Every click on the
\* banner in such a state leaves the runs as they are and isGenerating false,
\* and ends with the banner hidden and no ledger.
C17_ResumeOfFinishedSessionIsNoOp ==
  [][LET s == generationSession
     IN (/\ ResumeButtonShown
         /\ s # NoSession
         /\ s.mode = "store-builder"
         /\ \A p \in Range(s.products) :
              ResumeFilename(p) \in Range(s.completedFilenames))
        => /\ runs' = runs
           /\ isGenerating' = FALSE
           /\ abortControllerRef' = abortControllerRef
           /\ showResumeBanner' = FALSE
           /\ generationSession' = NoSession
           /\ UNCHANGED <<images, db, progress, error, isComplete>>
    ]_vars

\* the banner was answered on a session whose two variants both have their
\* image stored under the filename the client derives: nothing runs, the
\* banner is gone and so is the ledger
C17_Witness ==
  /\ Len(generatedProducts) = 2
  /\ \A p \in Range(generatedProducts) :
       \E x \in db : x.filename = ResumeFilename(p)
  /\ Cardinality(db) = 2
  /\ generationSession = NoSession
  /\ ~showResumeBanner
  /\ ~isGenerating
  /\ \A r \in RunIds : runs[r] = FreeRun

\* C18 as stated: within one run variants are processed strictly one at a
\* time in input order, so the k-th variant to be started is the k-th variant
\* of the input list.
C18_ProcessedInInputOrder ==
  \A r \in RunIds :
    LET run == runs[r]
    IN (run.spc = "attempt" /\ run.i >= 1) =>
         ServerOrder(run.products)[run.i] = run.products[run.i]

\* C18: within one run variants are processed strictly one at a time, group
\* by group: the groups in the order of their first members in the input, the
\* variants of a group next to each other and in input order.  The progress
\* event of a variant is emitted at a variant boundary, when every variant
\* before it in that order has had its terminal event (after all its
\* retries), and the anchor of a group has had its terminal event before any
\* follower of that group starts.
C18_OneVariantAtATimeGroupByGroup ==
  [][\A r \in RunIds :
       LET run == runs[r]
           P == run.products
           O == ServerOrder(P)
       IN /\ Len(O) = Len(P)
          /\ \A p \in Range(P) : Group(O, p) = Group(P, p)
          /\ \A j, k \in 1..Len(O) :
               (j < k /\ O[j].pn = O[k].pn) =>
                 \A h \in j..k : O[h].pn = O[j].pn
          /\ \A a, b \in AnchorPositions(O) :
               a < b =>
                 \E x \in AnchorPositions(P) :
                   /\ P[x].pn = O[a].pn
                   /\ \A y \in 1..x : P[y].pn # O[b].pn
          /\ (runs'[r].products = P /\ runs'[r].i = run.i + 1) =>
               /\ run.spc = "boundary"
               /\ runs'[r].spc = "attempt"
               /\ Len(run.results) = run.i
               /\ LET a == AnchorOf(O, run.i + 1)
                  IN a # run.i + 1 => a <= Len(run.results)
          /\ (run.spc = "attempt" /\ run.kind # "lingering") =>
               Len(run.results) = run.i - 1
    ]_vars

\* a run over a list whose groups are interleaved has started the follower
\* of its first group second, after the anchor's terminal event and ahead of
\* the variant listed second
C18_Witness ==
  \E r \in RunIds :
    LET run == runs[r]
        O == ServerOrder(run.products)
    IN /\ run.spc = "attempt"
       /\ run.i = 2
       /\ Len(run.results) = 1
       /\ O[2] # run.products[2]
       /\ O[2].pn = O[1].pn

\* C19 as stated: 1 <= current <= total holds for the client's progress
\* cursor throughout the run.
C19_CursorAtLeastOne ==
  \A r \in RunIds :
    (runs[r].cpc = "streaming" /\ ~runs[r].aborted) =>
      (1 <= progress.current /\ progress.current <= progress.total)

\* C19: in every run a progress event is emitted before each variant's
\* attempt, the k-th progress event carries current = k (1-based count of
\* variants started) and total = the length of the list handed to that run.
\* The client's cursor starts the run at current = 0 with that total and
\* takes the values of the progress events, so 0 <= current <= total holds
\* throughout the run, current never runs ahead of the variants started and
\* is at least the number of terminal events read.
C19_ProgressCountsVariantsStarted ==
  [][\A r \in RunIds :
       LET run == runs[r]
       IN /\ \A k \in 1..Len(run.stream) :
               run.stream[k].type = "progress" =>
                 /\ run.stream[k].total = Len(run.products)
                 /\ 1 <= run.stream[k].current
                 /\ run.stream[k].current <= run.i
                 /\ run.i <= run.stream[k].total
          /\ (runs'[r].products = run.products
              /\ runs'[r].spc = "attempt" /\ run.spc # "attempt") =>
               /\ runs'[r].i = run.i + 1
               /\ Len(runs'[r].stream) = Len(run.stream) + 1
               /\ runs'[r].stream[Len(runs'[r].stream)].type = "progress"
               /\ runs'[r].stream[Len(runs'[r].stream)].current = run.i + 1
          /\ (run.cpc = "streaming" /\ ~run.aborted) =>
               /\ progress.total = Len(run.products)
               /\ 0 <= progress.current
               /\ progress.current <= progress.total
               /\ progress.current <= run.i
               /\ run.cImage + run.cError <= progress.current
    ]_vars

\* the cursor of a run over three variants stands at the second one, whose
\* progress event was read after the terminal event of the first
C19_Witness ==
  \E r \in RunIds :
    /\ runs[r].cpc = "streaming"
    /\ ~runs[r].aborted
    /\ Len(runs[r].products) = 3
    /\ progress = [current |-> 2, total |-> 3]
    /\ runs[r].cImage + runs[r].cError = 1

Blank(s) == \A k \in 1..Len(s) : s[k] = " "

Started(r) == runs[r].kind = "free" /\ runs'[r].kind \in {"sb", "csv"}

\* C20: a start request with an empty variant list or an empty
\* (whitespace-only) style input does not start a run: no request is sent,
\* no ledger is created or overwritten, the existing images and cache are
\* not cleared, and no per-variant event is produced.  A run is started over
\* a non-empty list only, a store-builder run with a style that is not blank
\* only; a fresh ledger is written and the store emptied by a started run
\* only (the store also by the Back and Start New buttons and the buttons
\* of the mode selector, which start nothing, the image list also by a
\* reload); and a request the server refuses is answered by the one failure,
\* without any variant started.
C20_NoRunOnEmptyInput ==
  [][ /\ \A r \in RunIds :
          LET run == runs[r]
              new == runs'[r]
          IN /\ Started(r) =>
                  /\ Len(new.products) > 0
                  /\ new.kind = "sb" =>
                       /\ ~Blank(photoStyle)
                       /\ new.style = photoStyle
                       /\ new.isResume \/ Len(generatedProducts) > 0
             /\ (new.products = run.products /\ new.spc = "refused"
                 /\ run.spc # "refused") =>
                  /\ new.i = 0
                  /\ new.results = << >>
                  /\ new.stream = <<Event("http_error", 0, 0, << >>)>>
             /\ run.i >= 1 => ServerPreconditions(run)
      /\ (generationSession' # generationSession
          /\ generationSession' # NoSession
          /\ generationSession'.completedFilenames = << >>) =>
           \E r \in RunIds : runs[r].cpc = "clearing"
      /\ (db # {} /\ db' = {}) =>
           \/ \E r \in RunIds : runs[r].cpc = "clearing"
           \/ BackToPhotoStyleShown
           \/ StartNewEnabled
           \/ ~isGenerating /\ runs' = runs /\ error' = 0 /\ ~isComplete'
      /\ (images # << >> /\ images' = << >>) =>
           \/ \E r \in RunIds : Started(r)
           \/ loadPending'
           \/ BackToPhotoStyleShown
           \/ StartNewEnabled
           \/ ~isGenerating /\ runs' = runs /\ error' = 0 /\ ~isComplete'
    ]_vars

\* Resume can be clicked on a session with variants left while the style
\* input is blank: the click returns before anything is touched, the stored
\* images and the ledger stay and no run exists
C20_Witness ==
  /\ ResumeButtonShown
  /\ Blank(photoStyle)
  /\ Len(Remaining(generationSession)) > 0
  /\ Len(generationSession.completedFilenames) > 0
  /\ images # << >>
  /\ db # {}
  /\ \A r \in RunIds : runs[r].kind = "free"

Collide(P) ==
  \E j, k \in 1..Len(P) :
     j < k /\ CanonicalFilename(P[j]) = CanonicalFilename(P[k])

\* C21: a batch run refuses to start when two variants of the list it is
\* handed derive the same filename: the collision is surfaced as one upfront
\* failure before any variant is generated, never resolved silently.  A run
\* over such a list never starts a variant and never delivers a progress,
\* image, error or complete event: the one thing its stream carries is the
\* failure of the request, and the client that reads it shows an error and
\* stops generating without an image added.
C21_CollisionRefusedUpfront ==
  [][\A r \in RunIds :
       LET run == runs[r]
       IN Collide(run.products) =>
            /\ run.i = 0
            /\ run.results = << >>
            /\ run.refs = << >>
            /\ run.spc \in {"unsent", "received", "refused"}
            /\ run.cImage = 0 /\ run.cError = 0 /\ run.cComplete = 0
            /\ \A k \in 1..Len(run.stream) : run.stream[k].type = "http_error"
            /\ Len(run.stream) <= 1
            /\ (run.spc = "received" /\ runs'[r] # run
                /\ runs'[r].products = run.products) =>
                 /\ runs'[r].spc = "refused" \/ runs'[r].cancelled
            /\ (run.spc = "refused" /\ run.stream # << >>
                /\ runs'[r].stream = << >> /\ ~run.aborted /\ ~loadPending') =>
                 /\ error' = 1
                 /\ ~isGenerating'
                 /\ images' = images
                 /\ ~isComplete'
    ]_vars

\* the request of a run over two variants that derive 'A1MB' was refused and
\* the failure is on its way to the client
C21_Witness ==
  \E r \in RunIds :
    /\ Collide(runs[r].products)
    /\ runs[r].spc = "refused"
    /\ runs[r].cpc = "streaming"
    /\ Len(runs[r].stream) = 1
    /\ runs[r].stream[1].type = "http_error"

\* C22: single-item regeneration is independent of the batch and sends no
\* reference image: a successful regeneration of filename f replaces only the
\* entry f (in memory and in the cache) in place, leaving the number and
\* order of images, every other image, the ledger and the batch-run state
\* unchanged; a failed regeneration changes no image at all.  A step that
\* answers a regeneration request and changes the cache or the image list
\* keeps their filenames, changes the entry of the request's filename only,
\* and leaves the ledger and the runs alone.
C22_RegenerationReplacesInPlace ==
  [][Len(regenRequests') < Len(regenRequests) =>
       /\ db' # db =>
            /\ {x.filename : x \in db'} = {x.filename : x \in db}
            /\ \E j \in 1..Len(regenRequests) :
                 \A x \in db :
                   x.filename # regenRequests[j].filename => x \in db'
            /\ generationSession' = generationSession
            /\ runs' = runs
            /\ isGenerating' = isGenerating
       /\ (images' # images /\ images' # << >>) =>
            /\ Len(images') = Len(images)
            /\ \A k \in 1..Len(images) :
                 images'[k].filename = images[k].filename
            /\ \E j \in 1..Len(regenRequests) :
                 \A k \in 1..Len(images) :
                   images[k].filename # regenRequests[j].filename =>
                     images'[k] = images[k]
    ]_vars

\* C23: the client marks a batch as complete (isComplete = true) only when
\* the most recent run delivered a complete event: a run that was cancelled,
\* interrupted, or is still in progress is never shown as complete, including
\* after a reload that restores stored images.  The ledger is written when a
\* run starts and removed when its complete event is read, so while a ledger
\* with fewer filenames than variants exists, or a run is reading its events
\* without having read complete, the batch is not shown as complete.
C23_CompleteOnlyAfterCompleteEvent ==
  isComplete =>
    /\ ~Unresolved(generationSession)
    /\ \A r \in RunIds :
         (runs[r].cpc = "streaming" /\ ~runs[r].aborted /\ isGenerating) =>
           runs[r].cComplete = 1

\* C24: in every reachable state, each filename listed as completed in the
\* ledger has an image in the image list and the persisted cache; so after
\* any sequence of cancel, mode change, reload and resume, a resumed run that
\* ends with complete leaves an image or an error for every variant of the
\* original list.  (The image list is compared once the mount's load of the
\* cache has resolved.)
C24_CompletedFilenamesHaveImages ==
  generationSession # NoSession =>
    \A f \in Range(generationSession.completedFilenames) :
       /\ \E x \in db : x.filename = f
       /\ ~loadPending => \E k \in 1..Len(images) : images[k].filename = f

\* C25: after Start New (or any other action that clears all images)
\* completes, the persisted image cache stays empty until a new batch run
\* delivers an image event, even when a single-item regeneration was in
\* flight at the time of the clear and finishes afterwards.  The only step
\* that puts an image into an empty cache is the handling of an image event
\* of a batch run.
C25_ClearedCacheStaysEmpty ==
  [][(db = {} /\ db' # {}) =>
       \E r \in RunIds :
          /\ runs[r].cpc = "streaming"
          /\ runs[r].stream # << >>
          /\ Head(runs[r].stream).type = "image"
          /\ runs'[r].cImage = runs[r].cImage + 1
    ]_vars

\* C26: in every reachable state the in-memory image list contains at most
\* one entry per filename and the same set of filenames as the persisted
\* cache (which upserts by filename), after any sequence of runs, resumes and
\* regenerations.  (The two are compared outside the two awaits that
\* separate their updates: the mount's load of the cache and the clear of
\* the cache at the start of a run.)
C26_ImageListMatchesCache ==
  /\ \A j, k \in 1..Len(images) :
       images[j].filename = images[k].filename => j = k
  /\ (~loadPending /\ \A r \in RunIds : runs[r].cpc # "clearing") =>
       {images[k].filename : k \in 1..Len(images)} = {x.filename : x \in db}

\* C27: images received by a resumed run are never lost from the in-memory
\* image list: whatever the interleaving of the asynchronous load of stored
\* images at mount with a resume started right after mount, the list ends up
\* holding the previously stored images plus every image event of the
\* resumed run.  Once the load has resolved, the list of a resumed run that
\* is reading its events holds every image of the cache and at least as many
\* entries as the run has read image events.
C27_ResumedImagesNotLost ==
  \A r \in RunIds :
    (/\ runs[r].isResume
     /\ runs[r].cpc = "streaming"
     /\ ~runs[r].aborted
     /\ ~loadPending) =>
       /\ \A x \in db : \E k \in 1..Len(images) : images[k].filename = x.filename
       /\ Len(images) >= runs[r].cImage

KeysUnique(P) ==
  \A j, k \in 1..Len(P) :
     (P[j].pn = P[k].pn /\ P[j].g = P[k].g /\ P[j].c = P[k].c) => j = k

\* C29: starting from a product list with no two rows sharing
\* (ProductNumber, GenderCode, ColorCode), any sequence of Add Product and
\* Delete operations in the product table keeps that key unique across rows,
\* so the list handed to generation never contains two variants with the
\* same key.
C29_TableKeepsKeysUnique ==
  /\ KeysUnique(generatedProducts)
  /\ \A r \in RunIds : KeysUnique(runs[r].products)

\* C30: products missing a required field (Product Number, Name or Color)
\* are skipped during generation: they are not part of the variant list sent
\* to the generation run nor counted in the ledger's declared total and the
\* progress total.
C30_InvalidProductsSkipped ==
  /\ \A r \in RunIds :
       runs[r].kind = "sb" =>
         /\ \A k \in 1..Len(runs[r].products) :
              ValidProduct(runs[r].products[k])
         /\ (runs[r].cpc = "streaming" /\ ~runs[r].aborted) =>
              progress.total <= Len(validProducts)
  /\ (generationSession # NoSession
      /\ generationSession.mode = "store-builder") =>
       generationSession.totalCount <= Len(validProducts)

====
